---- MODULE Spec2Model ----
(***************************************************************************)
(* The thread-local facade of fastrand (src/src/thread_local.rs): one lazy *)
(* generator per thread behind `RNG`, the free functions that delegate to  *)
(* it through `RNG.with`, and `Rng::new`, which seeds a fresh generator    *)
(* from it through `RNG.try_with`.                                         *)
(*                                                                         *)
(* The generator itself (`crate::Rng`) is not part of thread_local.rs; the *)
(* Rng_* operators stand for it, with a word of WordBits bits in place of  *)
(* the 64-bit word.                                                        *)
(***************************************************************************)
EXTENDS Integers, Sequences, FiniteSets, TLC

\* Width of the generator's word in the model (u64 in the source).
WordBits == 8

\* Number of calls the threads make in all.
MaxCalls == 3

\* Largest base handed to digit when its contract is checked.
MaxBase == 40

\* Longest slice handed to shuffle when its contract is checked.
MaxLen == 3

Word == 2 ^ WordBits

Threads == {"t1", "t2"}

\* Values `hasher.finish()` may return for (Instant::now(), thread id);
\* the second has the top bit of the word set.
Hashes == {3, Word - 2}

\* Values passed to seed(u64).
Seeds == {0, 7}

\* Generator states the second run of a seeded sequence may start from.
PriorStates == {1, Word - 2}

\* Low 20 bits of 0x4d595df4d0f33173.
FallbackLow == 209267

FallbackSeed == FallbackLow % Word

-----------------------------------------------------------------------------
(* crate::Rng, the generator the facade delegates to.  Every operation     *)
(* maps a generator state to [st: the state after, out: <<value>> or <<>>, *)
(* panic: whether the call panicked].                                      *)

Ok(s, v) == [st |-> s, out |-> <<v>>, panic |-> FALSE]

Unit(s) == [st |-> s, out |-> <<>>, panic |-> FALSE]

Panic(s) == [st |-> s, out |-> <<>>, panic |-> TRUE]

\* One step of the generator: the next state and the word it yields.
gen_u64(s) ==
    LET s1 == (s + 101) % Word
    IN  [st |-> s1, val |-> (s1 * 13 + 7) % Word]

\* A draw in 0 .. n-1 by multiply-and-reject: g is the step just taken and
\* t the rejection threshold.
RECURSIVE gen_mod_loop(_, _, _)
gen_mod_loop(g, n, t) ==
    IF ((g.val * n) % Word) < t
    THEN gen_mod_loop(gen_u64(g.st), n, t)
    ELSE [st |-> g.st, val |-> (g.val * n) \div Word]

gen_mod(s, n) == gen_mod_loop(gen_u64(s), n, (Word - n) % n)

Rng_seed(s, v) == Unit(v % Word)

Rng_with_seed(v) == Rng_seed(0, v).st

\* The word of a step as a bool, as a word, as a fraction of the word.
AsBool(g) == Ok(g.st, g.val % 2 = 1)

AsWord(g) == Ok(g.st, g.val)

AsFraction(g) == Ok(g.st, [num |-> g.val, den |-> Word])

Rng_bool(s) == AsBool(gen_u64(s))

Digits36 ==
    << "0", "1", "2", "3", "4", "5", "6", "7", "8", "9",
       "a", "b", "c", "d", "e", "f", "g", "h", "i", "j", "k", "l", "m",
       "n", "o", "p", "q", "r", "s", "t", "u", "v", "w", "x", "y", "z" >>

Lower == SubSeq(Digits36, 11, 36)

Upper ==
    << "A", "B", "C", "D", "E", "F", "G", "H", "I", "J", "K", "L", "M",
       "N", "O", "P", "Q", "R", "S", "T", "U", "V", "W", "X", "Y", "Z" >>

PickAt(g, chars) == Ok(g.st, chars[g.val + 1])

Pick(s, chars) == PickAt(gen_mod(s, Len(chars)), chars)

Rng_alphabetic(s) == Pick(s, Lower \o Upper)

Rng_alphanumeric(s) == Pick(s, Lower \o Upper \o SubSeq(Digits36, 1, 10))

Rng_lowercase(s) == Pick(s, Lower)

Rng_uppercase(s) == Pick(s, Upper)

Rng_digit(s, base) ==
    IF base = 0 \/ base > 36
    THEN Panic(s)
    ELSE Pick(s, SubSeq(Digits36, 1, base))

\* The integer types of the integer! instances that fit the model's word.
TypeInfo ==
    [u8 |-> [bits |-> 8, signed |-> FALSE],
     i8 |-> [bits |-> 8, signed |-> TRUE]]

IntTypes == DOMAIN TypeInfo

TMin(T) == IF TypeInfo[T].signed THEN 0 - 2 ^ (TypeInfo[T].bits - 1) ELSE 0

TMax(T) ==
    IF TypeInfo[T].signed
    THEN 2 ^ (TypeInfo[T].bits - 1) - 1
    ELSE 2 ^ TypeInfo[T].bits - 1

\* x reduced to the type's width (wrapping arithmetic, `as $t`).
Wrap(T, x) ==
    LET m == 2 ^ TypeInfo[T].bits
        u == x % m
    IN  IF u > TMax(T) THEN u - m ELSE u

Unbounded == [k |-> "Unbounded", x |-> 0]

Included(x) == [k |-> "Included", x |-> x]

Excluded(x) == [k |-> "Excluded", x |-> x]

\* The bounds a range resolves to: empty says a bound fell off the type.
LowOf(T, b) ==
    CASE b.k = "Unbounded" -> [empty |-> FALSE, x |-> TMin(T)]
      [] b.k = "Included"  -> [empty |-> FALSE, x |-> b.x]
      [] b.k = "Excluded"  -> [empty |-> b.x = TMax(T), x |-> b.x + 1]

HighOf(T, b) ==
    CASE b.k = "Unbounded" -> [empty |-> FALSE, x |-> TMax(T)]
      [] b.k = "Included"  -> [empty |-> FALSE, x |-> b.x]
      [] b.k = "Excluded"  -> [empty |-> b.x = TMin(T), x |-> b.x - 1]

\* low wrapping_add the drawn offset g.
Offset(T, low, g) == Ok(g.st, Wrap(T, low + g.val))

\* A draw between the resolved bounds low and high.
Rng_between(s, T, low, high) ==
    IF low.empty \/ high.empty \/ low.x > high.x
    THEN Panic(s)
    ELSE IF low.x = TMin(T) /\ high.x = TMax(T)
    THEN Offset(T, 0, gen_u64(s))
    ELSE Offset(T, low.x,
                gen_mod(s, (high.x - low.x + 1) % (2 ^ TypeInfo[T].bits)))

Rng_int(s, T, range) ==
    Rng_between(s, T, LowOf(T, range.lo), HighOf(T, range.hi))

\* The full-range draw `rng.u64(..)`.
Rng_u64(s) == AsWord(gen_u64(s))

\* A float in [0, 1) as a fraction of the word.
Rng_f32(s) == AsFraction(gen_u64(s))

Rng_f64(s) == AsFraction(gen_u64(s))

\* A swap that writes only one of the two elements.
Swap_copy(seq, i, j) ==
    [k \in 1 .. Len(seq) |-> IF k = i THEN seq[j] ELSE seq[k]]

Swap(seq, i, j) ==
    [k \in 1 .. Len(seq) |->
        IF k = i THEN seq[j] ELSE IF k = j THEN seq[i] ELSE seq[k]]

\* The loop of shuffle at index i, g being the draw of the index to swap.
RECURSIVE shuffle_loop(_, _, _)
shuffle_loop(g, seq, i) ==
    IF i < 3
    THEN Ok(g.st, Swap(seq, i, g.val + 1))
    ELSE shuffle_loop(gen_mod(g.st, i - 1), Swap(seq, i, g.val + 1), i - 1)

Rng_shuffle(s, slice) ==
    IF Len(slice) < 2
    THEN Ok(s, slice)
    ELSE shuffle_loop(gen_mod(s, Len(slice)), slice, Len(slice))

-----------------------------------------------------------------------------
(* The facade of thread_local.rs: the closure each free function hands to  *)
(* RNG.with, applied to the generator state it finds there.                *)

\* seed folding the value into the state it finds instead of resetting it.
seed_mix(rng_, v) == Unit((rng_ + v) % Word)

seed(rng_, v) == Rng_seed(rng_, v)

bool(rng_) == Rng_bool(rng_)

alphabetic(rng_) == Rng_alphabetic(rng_)

alphanumeric(rng_) == Rng_alphanumeric(rng_)

lowercase(rng_) == Rng_lowercase(rng_)

uppercase(rng_) == Rng_uppercase(rng_)

\* digit bringing the base into 1 ..= 36 before it delegates.
digit_clamp(rng_, base) ==
    Rng_digit(rng_, IF base = 0 THEN 1 ELSE IF base > 36 THEN 36 ELSE base)

digit(rng_, base) == Rng_digit(rng_, base)

shuffle(rng_, slice) == Rng_shuffle(rng_, slice)

\* integer! answering the type's minimum where the generator panics.
integer_or_min(rng_, T, range) ==
    IF Rng_int(rng_, T, range).panic
    THEN Ok(rng_, TMin(T))
    ELSE Rng_int(rng_, T, range)

\* integer! handing an exclusive upper bound on as an inclusive one.
integer_incl(rng_, T, range) ==
    Rng_int(rng_, T,
            IF range.hi.k = "Excluded"
            THEN [range EXCEPT !.hi = Included(range.hi.x)]
            ELSE range)

\* integer!($t, ..): pub fn $t(range) { RNG.with(|rng| rng.$t(range)) }
integer(rng_, T, range) == Rng_int(rng_, T, range)

f32(rng_) == Rng_f32(rng_)

f64(rng_) == Rng_f64(rng_)

\* Rng::new reading the next word without advancing the generator.
new_peek(rng_) == Ok(rng_, gen_u64(rng_).val)

\* Rng::new taking the generator's state as the seed, without a draw.
new_clone(rng_) == Ok(rng_, rng_)

\* The closure of Rng::new: |rng| rng.u64(..)
new_draw(rng_) == Rng_u64(rng_)

Op(name, arg) == [name |-> name, arg |-> arg]

FacadeNames ==
    {"seed", "bool", "alphabetic", "alphanumeric", "lowercase", "uppercase",
     "digit", "shuffle", "integer", "f32", "f64"}

Body(op, rng_) ==
    CASE op.name = "seed"         -> seed(rng_, op.arg)
      [] op.name = "bool"         -> bool(rng_)
      [] op.name = "alphabetic"   -> alphabetic(rng_)
      [] op.name = "alphanumeric" -> alphanumeric(rng_)
      [] op.name = "lowercase"    -> lowercase(rng_)
      [] op.name = "uppercase"    -> uppercase(rng_)
      [] op.name = "digit"        -> digit(rng_, op.arg)
      [] op.name = "shuffle"      -> shuffle(rng_, op.arg)
      [] op.name = "integer"      -> integer(rng_, op.arg.T, op.arg.range)
      [] op.name = "f32"          -> f32(rng_)
      [] op.name = "f64"          -> f64(rng_)
      [] op.name = "new"          -> new_draw(rng_)

\* RNG as one static shared by all threads.
RNG_shared(t) == "t1"

\* RNG resolving to the slot of another thread.
RNG_other(t) == CHOOSE u \in Threads : u # t

\* The slot of thread-local storage the key RNG resolves to on thread t.
RNG(t) == t

\* x << 1 on a word: the top bit is shifted out.
Shl1(x) == (x * 2) % Word

\* x | 1 on a word: the lowest bit is set, the others are kept.
Or1(x) == IF x % 2 = 1 THEN x ELSE x + 1

\* The seed as the shifted hash alone.
RNG_seed_shift(hash) == Shl1(hash)

\* The seed as the hash with its lowest bit set, unshifted.
RNG_seed_or(hash) == Or1(hash)

\* The seed the lazy initialiser computes from the hash: (hash << 1) | 1.
RNG_seed(hash) == Or1(Shl1(hash))

\* The generator the lazy initialiser puts into the slot.
RNG_init(hash) == Rng_with_seed(RNG_seed(hash))

\* What a lazy initialisation leaves on record: the hash and the seed.
Seeded(hash) == <<[hash |-> hash, seed |-> RNG_seed(hash)]>>

\* What try_with answers: the closure ran and returned r on a slot that
\* was just created (init holds its seeding) or not, or the slot was gone.
Accessed(init, r) ==
    [err |-> FALSE, created |-> init # <<>>, init |-> init, life |-> "init",
     st |-> r.st, out |-> r.out, panic |-> r.panic]

AccessError(l, s) ==
    [err |-> TRUE, created |-> FALSE, init |-> <<>>, life |-> l, st |-> s,
     out |-> <<>>, panic |-> FALSE]

\* try_with running the initialiser on every access.
try_with_reinit(l, s, hash, op) ==
    IF l = "destroyed"
    THEN AccessError(l, s)
    ELSE Accessed(Seeded(hash), Body(op, RNG_init(hash)))

\* try_with answering an AccessError for a slot not yet initialised too.
try_with_no_init(l, s, hash, op) ==
    IF l # "init"
    THEN AccessError(l, s)
    ELSE Accessed(<<>>, Body(op, s))

\* LocalKey::try_with on a slot in lifecycle state l holding generator
\* state s: an AccessError once the slot is destroyed, otherwise the slot
\* is initialised if it was not yet and the closure runs on it.
try_with(l, s, hash, op) ==
    IF l = "destroyed"
    THEN AccessError(l, s)
    ELSE Accessed(IF l = "uninit" THEN Seeded(hash) ELSE <<>>,
                  Body(op, IF l = "uninit" THEN RNG_init(hash) ELSE s))

\* Result::expect: a panic on an AccessError.
expect(a) == IF a.err THEN [a EXCEPT !.panic = TRUE] ELSE a

\* LocalKey::with: try_with(..).expect(..).
with(l, s, hash, op) == expect(try_with(l, s, hash, op))

\* Rng::with_seed(a.unwrap_or(0x4d595df4d0f33173)) as the value returned.
with_seed_or(a) ==
    [a EXCEPT !.out =
        << Rng_with_seed(IF a.err THEN FallbackSeed ELSE a.out[1]) >>]

\* Rng::new reaching the slot through RNG.with, without the fallback.
new_with(l, s, hash) ==
    IF l = "destroyed"
    THEN with(l, s, hash, Op("new", <<>>))
    ELSE with_seed_or(with(l, s, hash, Op("new", <<>>)))

\* Rng::new: with_seed of the drawn word, or of the constant on an error.
new(l, s, hash) == with_seed_or(try_with(l, s, hash, Op("new", <<>>)))

Invoke(l, s, hash, op) ==
    IF op.name = "new" THEN new(l, s, hash) ELSE with(l, s, hash, op)

-----------------------------------------------------------------------------
VARIABLES
    life,    \* slot -> "uninit" | "init" | "destroyed"
    rng,     \* slot -> the state of the generator stored in the slot
    alive,   \* thread -> whether the thread still runs
    calls,   \* number of calls the threads have made
    own,     \* thread -> <<state>> of the generator it got from Rng::new
    sv,      \* thread -> <<v>> once the thread has called seed(v)
    twin,    \* thread -> a second run of the same calls from another state
    solo,    \* thread -> the same calls with no other thread running
    inits,   \* slot -> number of times the lazy initialiser has run
    since,   \* thread -> calls of other threads since its seed(v)
    expl,    \* thread -> <<state>> of a generator made by with_seed(v) at
             \* the thread's seed(v) and given the thread's calls since
    last     \* the call made by the last step and what it returned

vars ==
    <<life, rng, alive, calls, own, sv, twin, solo, inits, since, expl, last>>

Slot(l, s) == [life |-> l, st |-> s]

TwinPriors == {Slot("uninit", 0)} \cup {Slot("init", s) : s \in PriorStates}

NoCall ==
    [t |-> "none", op |-> Op("none", <<>>), err |-> FALSE, panic |-> FALSE,
     init |-> <<>>, renew |-> FALSE, out |-> <<>>, tpanic |-> FALSE, tout |-> <<>>,
     spanic |-> FALSE, sout |-> <<>>, epanic |-> FALSE, eout |-> <<>>]

Init ==
    /\ life = [t \in Threads |-> "uninit"]
    /\ rng = [t \in Threads |-> 0]
    /\ alive = [t \in Threads |-> TRUE]
    /\ calls = 0
    /\ own = [t \in Threads |-> <<>>]
    /\ sv = [t \in Threads |-> <<>>]
    /\ twin = [t \in Threads |-> Slot("uninit", 0)]
    /\ solo = [t \in Threads |-> Slot("uninit", 0)]
    /\ inits = [t \in Threads |-> 0]
    /\ since = [t \in Threads |-> 0]
    /\ expl = [t \in Threads |-> <<>>]
    /\ last = NoCall

\* The method of Rng that the facade function op names, called on a
\* generator in state s; Rng::new stands for the u64(..) it draws.
RngCall(op, s) ==
    CASE op.name = "seed"         -> Rng_seed(s, op.arg)
      [] op.name = "bool"         -> Rng_bool(s)
      [] op.name = "alphabetic"   -> Rng_alphabetic(s)
      [] op.name = "alphanumeric" -> Rng_alphanumeric(s)
      [] op.name = "lowercase"    -> Rng_lowercase(s)
      [] op.name = "uppercase"    -> Rng_uppercase(s)
      [] op.name = "digit"        -> Rng_digit(s, op.arg)
      [] op.name = "shuffle"      -> Rng_shuffle(s, op.arg)
      [] op.name = "integer"      -> Rng_int(s, op.arg.T, op.arg.range)
      [] op.name = "f32"          -> Rng_f32(s)
      [] op.name = "f64"          -> Rng_f64(s)
      [] op.name = "new"          -> Rng_u64(s)

\* The explicit generator e of a thread at its call op: made by
\* with_seed(v) when the call is a seed(v) that reached the slot, given the
\* same call when it exists, and absent before.
Explicit(e, op, err) ==
    IF op.name = "seed" /\ ~err
    THEN <<Unit(Rng_with_seed(op.arg))>>
    ELSE IF e = <<>> THEN <<>> ELSE <<RngCall(op, e[1])>>

\* The call op of thread t has returned a on its slot c, tw in the second
\* run, so in the run without other threads and ex on the explicit
\* generator.
Returned(t, c, op, a, tw, so, ex) ==
    LET seeded == op.name = "seed" /\ ~a.err
        second == seeded \/ sv[t] # <<>>
    IN  /\ life' = [life EXCEPT ![c] = a.life]
        /\ rng' = [rng EXCEPT ![c] = a.st]
        /\ inits' = [inits EXCEPT ![c] = @ + (IF a.created THEN 1 ELSE 0)]
        /\ own' = IF op.name = "new" THEN [own EXCEPT ![t] = a.out] ELSE own
        /\ sv' = [sv EXCEPT ![t] = IF seeded THEN <<op.arg>> ELSE @]
        /\ twin' = IF second
                   THEN [twin EXCEPT ![t] = Slot(tw.life, tw.st)]
                   ELSE twin
        /\ solo' = [solo EXCEPT ![t] = Slot(so.life, so.st)]
        /\ since' = [u \in Threads |->
                        IF u = t
                        THEN (IF seeded THEN 0 ELSE since[u])
                        ELSE since[u] + 1]
        /\ expl' = [expl EXCEPT ![t] = IF ex = <<>> THEN <<>>
                                                    ELSE <<ex[1].st>>]
        /\ last' = [t |-> t, op |-> op, err |-> a.err, panic |-> a.panic,
                    init |-> a.init,
                    renew |-> op.name = "new" /\ last.op.name = "new"
                                              /\ last.t = t,
                    out |-> a.out,
                    tpanic |-> IF second THEN tw.panic ELSE a.panic,
                    tout |-> IF second THEN tw.out ELSE a.out,
                    spanic |-> so.panic, sout |-> so.out,
                    epanic |-> IF ex = <<>> THEN a.panic ELSE ex[1].panic,
                    eout |-> IF ex = <<>> THEN a.out ELSE ex[1].out]

\* Thread t calls a facade function or Rng::new.  The second run makes the
\* same calls from the state prior, which it leaves behind at seed(v).
Call(t, op, hash, prior) ==
    /\ alive[t]
    /\ calls < MaxCalls
    /\ Returned(t, RNG(t), op,
                Invoke(life[RNG(t)], rng[RNG(t)], hash, op),
                Invoke(prior.life, prior.st, hash, op),
                Invoke(solo[t].life, solo[t].st, hash, op),
                Explicit(expl[t], op,
                         Invoke(life[RNG(t)], rng[RNG(t)], hash, op).err))
    /\ calls' = calls + 1
    /\ UNCHANGED alive

\* The arguments the threads pass.
Bases == {0, 16}

Slices == {<<1, 2, 3>>}

Ranges ==
    {[T |-> "i8", range |-> [lo |-> Included(0 - 2), hi |-> Excluded(2)]],
     [T |-> "u8", range |-> [lo |-> Included(3), hi |-> Excluded(3)]]}

\* The hash matters only to the call that initialises the slot.
HashesAt(t) == IF life[RNG(t)] = "uninit" THEN Hashes ELSE {0}

\* The states the second run may be in when the thread calls seed(v).
PriorsAt(t) ==
    IF life[RNG(t)] = "destroyed" THEN {Slot("destroyed", 0)} ELSE TwinPriors

Seed(t) ==
    \E v \in Seeds, h \in HashesAt(t), p \in PriorsAt(t) :
        Call(t, Op("seed", v), h, p)

Bool(t) == \E h \in HashesAt(t) : Call(t, Op("bool", <<>>), h, twin[t])

Alphabetic(t) ==
    \E h \in HashesAt(t) : Call(t, Op("alphabetic", <<>>), h, twin[t])

Alphanumeric(t) ==
    \E h \in HashesAt(t) : Call(t, Op("alphanumeric", <<>>), h, twin[t])

Lowercase(t) ==
    \E h \in HashesAt(t) : Call(t, Op("lowercase", <<>>), h, twin[t])

Uppercase(t) ==
    \E h \in HashesAt(t) : Call(t, Op("uppercase", <<>>), h, twin[t])

Digit(t) ==
    \E b \in Bases, h \in HashesAt(t) : Call(t, Op("digit", b), h, twin[t])

Shuffle(t) ==
    \E sl \in Slices, h \in HashesAt(t) :
        Call(t, Op("shuffle", sl), h, twin[t])

Integer(t) ==
    \E r \in Ranges, h \in HashesAt(t) :
        Call(t, Op("integer", r), h, twin[t])

F32(t) == \E h \in HashesAt(t) : Call(t, Op("f32", <<>>), h, twin[t])

F64(t) == \E h \in HashesAt(t) : Call(t, Op("f64", <<>>), h, twin[t])

New(t) == \E h \in HashesAt(t) : Call(t, Op("new", <<>>), h, twin[t])

\* Thread t uses the generator Rng::new gave it: a draw, or a seed.
OwnStep(t, op, r) ==
    /\ alive[t]
    /\ calls < MaxCalls
    /\ own[t] # <<>>
    /\ own' = [own EXCEPT ![t] = <<r.st>>]
    /\ calls' = calls + 1
    /\ last' = [NoCall EXCEPT !.t = t, !.op = op, !.out = r.out,
                              !.tout = r.out, !.sout = r.out]
    /\ UNCHANGED <<life, rng, alive, sv, twin, solo, inits, since, expl>>

OwnU64(t) == OwnStep(t, Op("own.u64", <<>>), Rng_u64(own[t][1]))

OwnSeed(t) ==
    \E v \in Seeds : OwnStep(t, Op("own.seed", v), Rng_seed(own[t][1], v))

Destroyed(sl) == IF sl.life = "init" THEN Slot("destroyed", 0) ELSE sl

\* The destructors of thread t's thread-local storage run: an initialised
\* RNG slot is destroyed, and the thread goes on running destructors.
Teardown(t) ==
    /\ alive[t]
    /\ life[RNG(t)] = "init"
    /\ life' = [life EXCEPT ![RNG(t)] = "destroyed"]
    /\ rng' = [rng EXCEPT ![RNG(t)] = 0]
    /\ twin' = IF sv[t] = <<>> THEN twin
                               ELSE [twin EXCEPT ![t] = Destroyed(@)]
    /\ solo' = [solo EXCEPT ![t] = Destroyed(@)]
    /\ last' = [NoCall EXCEPT !.t = t, !.op = Op("teardown", <<>>)]
    /\ UNCHANGED <<alive, calls, own, sv, inits, since, expl>>

\* Thread t terminates, and what it owned goes with it.
Exit(t) ==
    /\ alive[t]
    /\ alive' = [alive EXCEPT ![t] = FALSE]
    /\ life' = [life EXCEPT ![RNG(t)] =
                   IF @ = "init" THEN "destroyed" ELSE @]
    /\ rng' = [rng EXCEPT ![RNG(t)] = 0]
    /\ own' = [own EXCEPT ![t] = <<>>]
    /\ twin' = IF sv[t] = <<>> THEN twin
                               ELSE [twin EXCEPT ![t] = Destroyed(@)]
    /\ solo' = [solo EXCEPT ![t] = Destroyed(@)]
    /\ expl' = [expl EXCEPT ![t] = <<>>]
    /\ last' = [NoCall EXCEPT !.t = t, !.op = Op("exit", <<>>)]
    /\ UNCHANGED <<calls, sv, inits, since>>

Next ==
    \E t \in Threads :
        \/ Seed(t)
        \/ Bool(t)
        \/ Alphabetic(t)
        \/ Alphanumeric(t)
        \/ Lowercase(t)
        \/ Uppercase(t)
        \/ Digit(t)
        \/ Shuffle(t)
        \/ Integer(t)
        \/ F32(t)
        \/ F64(t)
        \/ New(t)
        \/ OwnU64(t)
        \/ OwnSeed(t)
        \/ Teardown(t)
        \/ Exit(t)

Spec == Init /\ [][Next]_vars

(* The functions on their own: a thread that has just called seed(v), for  *)
(* any word v, makes one call with any of the arguments below.             *)

FnThread == "t1"

AfterSeed(t, v) ==
    LET s == seed(0, v).st
    IN  /\ life = [u \in Threads |-> IF u = t THEN "init" ELSE "uninit"]
        /\ rng = [u \in Threads |-> IF u = t THEN s ELSE 0]
        /\ alive = [u \in Threads |-> TRUE]
        /\ calls = 1
        /\ own = [u \in Threads |-> <<>>]
        /\ sv = [u \in Threads |-> IF u = t THEN <<v>> ELSE <<>>]
        /\ twin = [u \in Threads |->
                      IF u = t THEN Slot("init", s) ELSE Slot("uninit", 0)]
        /\ solo = [u \in Threads |->
                      IF u = t THEN Slot("init", s) ELSE Slot("uninit", 0)]
        /\ inits = [u \in Threads |-> IF u = t THEN 1 ELSE 0]
        /\ since = [u \in Threads |-> IF u = t THEN 0 ELSE 1]
        /\ expl = [u \in Threads |->
                      IF u = t THEN <<Rng_with_seed(v)>> ELSE <<>>]
        /\ last = [NoCall EXCEPT !.t = t, !.op = Op("seed", v)]

InitFn == \E v \in 0 .. Word - 1 : AfterSeed(FnThread, v)

\* The bounds tried for a type: its ends, their neighbours, and -1, 0, 1.
Edges(T) ==
    {TMin(T), TMin(T) + 1, TMax(T) - 1, TMax(T)}
        \cup ({0 - 1, 0, 1} \cap (TMin(T) .. TMax(T)))

BoundsOf(T) ==
    {Unbounded} \cup {Included(x) : x \in Edges(T)}
                \cup {Excluded(x) : x \in Edges(T)}

DigitOf(t) ==
    /\ last.op.name = "seed"
    /\ \E b \in 0 .. MaxBase : Call(t, Op("digit", b), 0, twin[t])

IntegerOf(t) ==
    /\ last.op.name = "seed"
    /\ \E T \in IntTypes :
           \E lo \in BoundsOf(T), hi \in BoundsOf(T) :
               Call(t, Op("integer", [T |-> T,
                                      range |-> [lo |-> lo, hi |-> hi]]),
                    0, twin[t])

\* The elements of the slices shuffled, and the slices: every sequence of
\* them up to MaxLen long, repeated elements included.
Elems == 1 .. 3

SlicesUpTo(n) == UNION {[1 .. k -> Elems] : k \in 0 .. n}

ShuffleOf(t) ==
    /\ last.op.name = "seed"
    /\ \E slice \in SlicesUpTo(MaxLen) :
           Call(t, Op("shuffle", slice), 0, twin[t])

NextFn ==
    \/ DigitOf(FnThread)
    \/ IntegerOf(FnThread)
    \/ ShuffleOf(FnThread)

SpecFn == InitFn /\ [][NextFn]_vars

\* The lazy initialiser over every hash a thread can have: the first call
\* of the program, made by either thread, through the facade or Rng::new.
FirstBool(t) ==
    /\ calls = 0
    /\ \E h \in 0 .. Word - 1 : Call(t, Op("bool", <<>>), h, twin[t])

FirstNew(t) ==
    /\ calls = 0
    /\ \E h \in 0 .. Word - 1 : Call(t, Op("new", <<>>), h, twin[t])

NextInit == \E t \in Threads : FirstBool(t) \/ FirstNew(t)

SpecInit == Init /\ [][NextInit]_vars

TypeOK ==
    /\ life \in [Threads -> {"uninit", "init", "destroyed"}]
    /\ rng \in [Threads -> 0 .. Word - 1]
    /\ alive \in [Threads -> BOOLEAN]
    /\ calls \in 0 .. MaxCalls

-----------------------------------------------------------------------------
AccessNames == FacadeNames \cup {"new"}

\* The slot of thread t as a record.
SlotOf(t) == Slot(life[t], rng[t])

\* C1: seed(v) is deterministic.  Two runs that call seed(v) from different
\* prior states of the generator and then make the same calls return the
\* same values, panic at the same calls, and leave the same state behind.
SeedDeterministic ==
    \A t \in Threads :
        sv[t] # <<>> =>
            /\ twin[t] = SlotOf(t)
            /\ (last.t = t /\ last.op.name \in AccessNames) =>
                   (last.out = last.tout /\ last.panic = last.tpanic)

\* A draw after seed(v): the thread has seeded and then drawn a bool.
SeedThenDraw ==
    /\ last.op.name = "bool"
    /\ last.t \in Threads
    /\ sv[last.t] # <<>>
    /\ Len(last.out) = 1
    /\ Len(last.tout) = 1

\* C2: whatever other threads do in between, what a thread observes after
\* its own seed(v) is what it observes when it makes the same calls alone.
SoloEquivalent ==
    \A t \in Threads :
        sv[t] # <<>> =>
            /\ solo[t] = SlotOf(t)
            /\ (last.t = t /\ last.op.name \in AccessNames) =>
                   (last.out = last.sout /\ last.panic = last.spanic)

\* A thread draws after its seed(v), another thread having called the
\* facade in between.
DrawAfterInterleaving ==
    \E t \in Threads :
        /\ last.t = t
        /\ last.op.name \in {"bool", "lowercase", "f64"}
        /\ sv[t] # <<>>
        /\ since[t] > 0
        /\ Len(last.out) = 1

\* C3: a call made by thread t reads and writes the generator of t only;
\* the generator state and the lifecycle flag of every other thread are as
\* they were before the step.
FrameOtherThreads ==
    [][\A u \in Threads :
           u # last'.t => (life'[u] = life[u] /\ rng'[u] = rng[u])]_vars

\* A thread has called the facade while another thread's generator exists.
CallBesideLiveGenerator ==
    \E t \in Threads, u \in Threads :
        /\ u # t
        /\ last.t = t
        /\ last.op.name \in AccessNames
        /\ ~last.err
        /\ life[u] = "init"
        /\ life[t] = "init"

\* C4: the lifecycle of a thread's generator.  It leaves "uninit" only by
\* the thread's own first call, which creates it; the initialiser runs at
\* most once; every later call of the thread works on the state the
\* previous calls left; and it is destroyed only by the thread's teardown
\* or exit, after which it stays destroyed.
Lifecycle ==
    [][\A t \in Threads :
        LET mine == last'.t = t /\ last'.op.name \in AccessNames
        IN  /\ inits'[t] <= 1
            /\ (life[t] = "uninit" /\ life'[t] # "uninit") =>
                   (mine /\ life'[t] = "init" /\ inits'[t] = 1)
            /\ (life[t] = "uninit" /\ mine) => life'[t] = "init"
            /\ (life[t] = "init" /\ mine) =>
                   /\ life'[t] = "init"
                   /\ inits'[t] = inits[t]
                   /\ rng'[t] = Body(last'.op, rng[t]).st
            /\ (life[t] = "init" /\ ~mine) =>
                   \/ (life'[t] = "init" /\ rng'[t] = rng[t])
                   \/ /\ life'[t] = "destroyed"
                      /\ last'.t = t
                      /\ last'.op.name \in {"teardown", "exit"}
            /\ life[t] = "destroyed" => life'[t] = "destroyed"]_vars

\* A thread has called the facade on a generator it had created earlier.
SecondAccess ==
    \E t \in Threads :
        /\ last.t = t
        /\ last.op.name \in {"bool", "digit", "integer"}
        /\ sv[t] # <<>>
        /\ life[t] = "init"
        /\ inits[t] = 1

\* C5: with the slot accessible, Rng::new returns a generator seeded with
\* the word one full-range u64 draw on the thread's generator yields and
\* advances that generator by this one draw; what is done with the
\* returned generator leaves the thread-local one alone, and facade calls
\* leave the returned one alone.
NewSeededFromThreadLocal ==
    [][\A t \in Threads :
        /\ (last'.t = t /\ last'.op.name = "new" /\ life[t] # "destroyed") =>
               \E s0 \in (IF life[t] = "init"
                          THEN {rng[t]}
                          ELSE {RNG_init(h) : h \in Hashes}) :
                   LET d == Rng_u64(s0)
                   IN  /\ own'[t] = << Rng_with_seed(d.out[1]) >>
                       /\ last'.out = own'[t]
                       /\ ~last'.panic
                       /\ rng'[t] = d.st
                       /\ life'[t] = "init"
        /\ (last'.t = t /\ last'.op.name \in {"own.u64", "own.seed"}) =>
               (rng' = rng /\ life' = life)
        /\ last'.op.name \in FacadeNames => own' = own]_vars

\* Rng::new has returned a generator drawn from an accessible slot.
NewFromLiveSlot ==
    /\ last.op.name = "new"
    /\ ~last.err
    /\ last.t \in Threads
    /\ own[last.t] = last.out
    /\ Len(last.out) = 1

\* C6: with the slot destroyed, Rng::new does not panic: it returns a
\* generator seeded with the constant and leaves the thread-local state
\* as it was.
NewFallback ==
    [][\A t \in Threads :
        (last'.t = t /\ last'.op.name = "new" /\ life[t] = "destroyed") =>
            /\ ~last'.panic
            /\ last'.out = << Rng_with_seed(FallbackSeed) >>
            /\ own'[t] = last'.out
            /\ life' = life
            /\ rng' = rng
            /\ inits' = inits]_vars

\* Rng::new has been called on a thread whose slot is destroyed.
NewDuringTeardown ==
    /\ last.op.name = "new"
    /\ last.err
    /\ last.t \in Threads
    /\ life[last.t] = "destroyed"
    /\ alive[last.t]

\* C7: no call that reaches for the thread-local generator after its slot
\* has been destroyed panics.
TeardownAccessNeverPanics ==
    (last.op.name \in AccessNames /\ last.err) => ~last.panic

\* The integers a range of type T denotes.
Denotes(T, range) ==
    {x \in TMin(T) .. TMax(T) :
        /\ range.lo.k = "Included" => x >= range.lo.x
        /\ range.lo.k = "Excluded" => x > range.lo.x
        /\ range.hi.k = "Included" => x <= range.hi.x
        /\ range.hi.k = "Excluded" => x < range.hi.x}

\* C8: digit(base), reaching the thread's generator, returns one of the
\* first base symbols of 0-9a-z when 1 <= base <= 36, and panics, returning
\* nothing, when base = 0 or base > 36.
DigitContract ==
    (last.op.name = "digit" /\ ~last.err) =>
        IF 1 <= last.op.arg /\ last.op.arg <= 36
        THEN /\ ~last.panic
             /\ Len(last.out) = 1
             /\ \E i \in 1 .. last.op.arg : last.out[1] = Digits36[i]
        ELSE last.panic /\ last.out = <<>>

\* digit(36) has returned the last symbol.
DigitLastSymbol ==
    /\ last.op.name = "digit"
    /\ last.op.arg = 36
    /\ last.out = << "z" >>

\* C9: an integer function called with a range that denotes no integer
\* panics and returns nothing, whatever the state of the generator.
EmptyRangePanics ==
    (/\ last.op.name = "integer"
     /\ ~last.err
     /\ Denotes(last.op.arg.T, last.op.arg.range) = {}) =>
        (last.panic /\ last.out = <<>>)

\* An integer function has been called with lower bound = exclusive upper
\* bound.
EmptyRangeCalled ==
    /\ last.op.name = "integer"
    /\ last.op.arg.range.lo.k = "Included"
    /\ last.op.arg.range.hi.k = "Excluded"
    /\ last.op.arg.range.lo.x = last.op.arg.range.hi.x
    /\ last.panic

\* C10: the value an integer function returns for a non-empty range is one
\* of the integers the range denotes.
IntegerInRange ==
    (last.op.name = "integer" /\ ~last.err /\ ~last.panic) =>
        /\ Len(last.out) = 1
        /\ last.out[1] \in Denotes(last.op.arg.T, last.op.arg.range)

\* i8(126..) has returned the inclusive upper end of the type, and the
\* range is not the full one.
IntegerAtTypeMax ==
    /\ last.op.name = "integer"
    /\ last.op.arg.T = "i8"
    /\ last.op.arg.range = [lo |-> Included(126), hi |-> Unbounded]
    /\ last.out = << 127 >>

\* C11: for every hash, the seed the lazy initialiser gives the generator
\* is an odd, non-zero word, the shift and the or being taken on words.
SeedOddNonZero ==
    last.init # <<>> =>
        /\ last.init[1].seed \in 1 .. Word - 1
        /\ last.init[1].seed % 2 = 1

\* A slot was initialised from a hash whose top bit the shift drops.
InitFromTopBitHash ==
    /\ last.init # <<>>
    /\ last.init[1].hash = Word - 1

\* C16 as stated: the seed is the hash with its lowest bit set, all other
\* bits being the bits of the hash at the same positions.
SeedIsHashOrOne ==
    last.init # <<>> => last.init[1].seed = Or1(last.init[1].hash)

\* C16: the seed is the hash shifted left by one bit with the lowest bit
\* set: bit i + 1 of the seed is bit i of the hash, the top bit of the
\* hash is dropped.
SeedIsShiftedHashOrOne ==
    last.init # <<>> =>
        /\ last.init[1].seed % 2 = 1
        /\ last.init[1].seed \div 2 = last.init[1].hash % (Word \div 2)

\* A slot was initialised from an even hash with the top bit set.
InitFromEvenHash ==
    /\ last.init # <<>>
    /\ last.init[1].hash = Word - 2
    /\ last.init[1].seed = Word - 3

\* C12 as stated: two calls of Rng::new made one after the other by the
\* same thread return generators with different seeds.
TwoNewsDiffer ==
    [][(last.op.name = "new" /\ last'.op.name = "new" /\ last'.t = last.t)
           => last'.out # last.out]_vars

\* C12: two calls of Rng::new made one after the other by the same thread
\* while its thread-local generator is accessible return generators with
\* different seeds, the second seeded by a draw from the state the first
\* left behind, which that draw advances again; once the generator is
\* destroyed both return the generator of the fallback constant.
TwoNewsDifferWhileAccessible ==
    [][\A t \in Threads :
           (last.op.name = "new" /\ last'.op.name = "new"
                /\ last.t = t /\ last'.t = t) =>
               IF last'.err
               THEN /\ last.err
                    /\ last'.out = last.out
               ELSE /\ ~last.err
                    /\ last'.out # last.out
                    /\ last'.out =
                           <<Rng_with_seed(Rng_u64(rng[RNG(t)]).out[1])>>
                    /\ rng'[RNG(t)] = Rng_u64(rng[RNG(t)]).st
                    /\ rng'[RNG(t)] # rng[RNG(t)]]_vars

\* A thread's second Rng::new in a row has drawn from its live generator.
SecondNewInARow ==
    /\ last.op.name = "new"
    /\ last.renew
    /\ ~last.err
    /\ life[RNG(last.t)] = "init"

\* The inputs on which a facade function is specified to return.
ValidInput(op) ==
    CASE op.name = "digit"   -> op.arg \in 1 .. 36
      [] op.name = "integer" -> Denotes(op.arg.T, op.arg.range) # {}
      [] OTHER               -> TRUE

\* C13: every facade call on valid input returns, whatever the other
\* threads have done or not done: a call is one step of its thread alone,
\* and that step ends in a return, not in a panic.
ValidCallsReturn ==
    (last.op.name \in FacadeNames /\ ValidInput(last.op)) => ~last.panic

\* How often x occurs in seq.
Count(seq, x) == Cardinality({i \in 1 .. Len(seq) : seq[i] = x})

\* r is a rearrangement of a.
Permutes(a, r) ==
    /\ Len(r) = Len(a)
    /\ \A x \in Elems : Count(r, x) = Count(a, x)
    /\ \A i \in 1 .. Len(r) : r[i] \in Elems

\* C14: shuffle, reaching the thread's generator, returns normally and
\* leaves in the slice the elements it held, each as often as before, and
\* leaves a slice of no or one element as it was.
ShufflePermutes ==
    (last.op.name = "shuffle" /\ ~last.err) =>
        /\ ~last.panic
        /\ Len(last.out) = 1
        /\ Permutes(last.op.arg, last.out[1])
        /\ Len(last.op.arg) < 2 => last.out[1] = last.op.arg

\* shuffle has reordered a slice of three different elements.
ShuffleReordered ==
    /\ last.op.name = "shuffle"
    /\ ~last.err
    /\ last.op.arg = <<1, 2, 3>>
    /\ last.out # <<>>
    /\ last.out[1] # <<1, 2, 3>>

\* The last call was made by a thread that has an explicit generator:
\* what the call returned is what the same method returned on the explicit
\* generator, and the slot holds the explicit generator's state.
LastDelegated ==
    /\ last.panic = last.epanic
    /\ last.out = last.eout
    /\ life[RNG(last.t)] = "init"
    /\ rng[RNG(last.t)] = expl[last.t][1]

\* C17: after a thread's seed(v), each facade call of the thread returns
\* what the same method returns on an explicit generator made by
\* with_seed(v) and given the same calls, and leaves the thread's
\* generator in the state of that explicit generator.
FacadeDelegates ==
    (last.op.name \in FacadeNames /\ expl[last.t] # <<>>) => LastDelegated

\* The same wherever the call reached the thread's generator.
FacadeDelegatesWhileAccessible ==
    (last.op.name \in FacadeNames /\ expl[last.t] # <<>> /\ ~last.err)
        => LastDelegated

\* C18: Rng::new takes the fallback constant only on a destroyed slot.
\* Called as the first access of a thread, it runs the lazy initialiser
\* once, seeding the slot from the hash as any first access does, seeds
\* the returned generator with one draw from that new generator, and
\* leaves the slot initialised and advanced by the draw.
NewInitialisesLazily ==
    [][\A t \in Threads :
        (last'.t = t /\ last'.op.name = "new") =>
            /\ last'.err <=> life[RNG(t)] = "destroyed"
            /\ life[RNG(t)] = "uninit" =>
                   /\ inits[RNG(t)] = 0
                   /\ inits'[RNG(t)] = 1
                   /\ last'.init # <<>>
                   /\ last'.init[1].seed % 2 = 1
                   /\ last'.init[1].seed \div 2 =
                          last'.init[1].hash % (Word \div 2)
                   /\ life'[RNG(t)] = "init"
                   /\ rng'[RNG(t)] =
                          Rng_u64(Rng_with_seed(last'.init[1].seed)).st
                   /\ last'.out =
                          <<Rng_with_seed(
                              Rng_u64(Rng_with_seed(last'.init[1].seed))
                                  .out[1])>>
                   /\ own'[t] = last'.out]_vars

\* Rng::new was the first access of a thread and has created its slot.
NewAsFirstAccess ==
    /\ last.op.name = "new"
    /\ last.init # <<>>
    /\ ~last.err
    /\ last.t \in Threads
    /\ life[RNG(last.t)] = "init"
    /\ inits[RNG(last.t)] = 1

====
